---- MODULE Spec2Model ----
(***************************************************************************)
(* A model of PyMVPA's Dataset container (mvpa/datasets/dataset.py) and of  *)
(* the classifier composition layer (mvpa/clfs/classifier.py).              *)
(*                                                                          *)
(* Python values are modelled as follows.                                   *)
(*   - None is the empty sequence <<>>, any other optional value x is <<x>>.*)
(*   - a numpy array is a record [nd |-> its ndim, v |-> its nested rows].  *)
(*   - an exception is the name of its class; "None" means no exception.    *)
(*   - sample / feature ids are 1-based here (0-based in Python).           *)
(***************************************************************************)
EXTENDS Integers, Sequences, FiniteSets, TLC

\* ------------------------------------------------------------------ bounds
MaxSamples == 2
MaxLabel == 3
MaxClfs == 3
MaxTrainings == 2
MaxRows == 4

\* ----------------------------------------------------------------- helpers
None == <<>>
Some(x) == <<x>>
NoErr == "None"

\* --------------------------------------------------------------- the calls
\* a call: the method, its operands, its arguments, the exception it ended
\* with, and where the Dataset stood in a permute cycle when it was made
Call(op, a, b, arg, err, phase) ==
    [op |-> op, a |-> a, b |-> b, arg |-> arg, err |-> err, phase |-> phase]

\* what an argument is: a sequence ("seq"), a scalar, None or an int; len()
\* of anything but a sequence raises TypeError
KindOf(arg) == arg.kind

Range(s) == {s[i] : i \in 1..Len(s)}

RECURSIVE SortedSeq(_)
SortedSeq(S) ==
    IF S = {} THEN <<>>
    ELSE LET m == CHOOSE x \in S : \A y \in S : x <= y
         IN  <<m>> \o SortedSeq(S \ {m})

\* numpy.unique of a 1-d array: the sorted distinct values
Unique(seq) == SortedSeq(Range(seq))

\* the positions at which a 1-d sequence holds value x: (seq == x).nonzero()[0]
Where(seq, x) == {i \in 1..Len(seq) : seq[i] = x}

\* fancy indexing a[ids,] of a sequence of rows / labels by a sequence of ids
Take(seq, ids) == [k \in 1..Len(ids) |-> seq[ids[k]]]

Perms(n) == {p \in [1..n -> 1..n] : \A i, j \in 1..n : p[i] = p[j] => i = j}

\* sequences without repetition over the set S, of length k
Arrangements(S, k) ==
    {s \in [1..k -> S] : \A i, j \in 1..k : s[i] = s[j] => i = j}

\* ------------------------------------------------------------ numpy arrays
\* An ndarray; a plain Python (nested) list has isarr = FALSE.
Arr(nd, v) == [isarr |-> TRUE, nd |-> nd, v |-> v]
List(nd, v) == [isarr |-> FALSE, nd |-> nd, v |-> v]

\* numpy.array(x, ndmin=2): a 1-d sequence becomes a single row
Atleast2d(a) == IF a.nd < 2 THEN Arr(2, <<a.v>>) ELSE Arr(a.nd, a.v)

\* samples.shape[0] / len(samples), and samples.shape[1]
NRows(a) == Len(a.v)
NCols(a) == Len(a.v[1])

\* --------------------------------------------------------------- arguments
\* labels / chunks as passed to the constructor: a sequence, a scalar, None
SeqArg(v) == [kind |-> "seq", v |-> v]
ScalarArg(v) == [kind |-> "scalar", v |-> v]
NoneArg == [kind |-> "none", v |-> 0]

\* numpy.repeat(x, n) and numpy.arange(n)
Repeat(x, n) == [i \in 1..n |-> x]
Arange(n) == [i \in 1..n |-> i - 1]

\* ----------------------------------------------------------------- Dataset
Dataset(samples, labels, chunks, origlabels, uniqueLabels, uniqueChunks) ==
    [samples |-> samples, labels |-> labels, chunks |-> chunks,
     origlabels |-> origlabels, uniqueLabels |-> uniqueLabels,
     uniqueChunks |-> uniqueChunks]

\* what a call returns: the exception raised (or "None") and the value, if any
Result(err, val) == [err |-> err, val |-> val]

SetLabelsKeepCache(self, labels) == [self EXCEPT !.labels = labels]
SetLabels(self, labels) ==
    [self EXCEPT !.labels = labels, !.uniqueLabels = None]

SetChunks(self, chunks) ==
    [self EXCEPT !.chunks = chunks, !.uniqueChunks = None]

\* lines 48-56: the samples as a 2-d ndarray (dtype is None in every call)
SamplesToArray(samples) ==
    IF ~samples.isarr THEN Atleast2d(samples)
    ELSE IF samples.nd < 2 THEN Atleast2d(samples)
    ELSE samples

\* lines 67-78 and 85-98: a sequence must match the number of samples, a
\* scalar is repeated, chunks = None makes every sample its own chunk
AttrToArray(arg, n) ==
    CASE KindOf(arg) = "seq" ->
            IF Len(arg.v) # n THEN Result("ValueError", None)
            ELSE Result(NoErr, Some(arg.v))
      [] KindOf(arg) = "scalar" -> Result(NoErr, Some(Repeat(arg.v, n)))
      [] OTHER -> Result(NoErr, Some(Arange(n)))

DatasetInit(samples, labels, chunks) ==
    LET arr == SamplesToArray(samples)
        n == NRows(arr)
        lab == AttrToArray(labels, n)
        chk == AttrToArray(chunks, n)
    IN  IF arr.nd > 2 THEN Result("ValueError", None)
        ELSE IF lab.err # NoErr THEN Result(lab.err, None)
        ELSE IF chk.err # NoErr THEN Result(chk.err, None)
        ELSE Result(NoErr,
                    Some(Dataset(arr, lab.val[1], chk.val[1], None, None, None)))

\* __iadd__: the exception and the receiver afterwards
IaddNoFeatureCheck(self, other) ==
    Result(NoErr,
           Some(SetChunks(
                  SetLabels([self EXCEPT !.samples =
                                Arr(2, self.samples.v \o other.samples.v)],
                            self.labels \o other.labels),
                  self.chunks \o other.chunks)))
Iadd(self, other) ==
    IF NCols(self.samples) # NCols(other.samples)
    THEN Result("ValueError", Some(self))
    ELSE IaddNoFeatureCheck(self, other)

\* __add__: a new Dataset from self's arrays, then extended in place
Add(self, other) ==
    LET out == DatasetInit(self.samples, SeqArg(self.labels),
                           SeqArg(self.chunks))
    IN  IF out.err # NoErr THEN Result(out.err, None)
        ELSE LET r == Iadd(out.val[1], other)
             IN  IF r.err # NoErr THEN Result(r.err, None) ELSE r

\* selectFeatures: samples[:, ids]; a scalar id gives a 1-d array
SelectFeatures(self, ids) ==
    LET nc == NCols(self.samples)
        idseq == IF ids.kind = "seq" THEN ids.v ELSE <<ids.v>>
        cols == IF ids.kind = "seq"
                THEN Arr(2, [i \in 1..NRows(self.samples) |->
                                 Take(self.samples.v[i], ids.v)])
                ELSE Arr(1, [i \in 1..NRows(self.samples) |->
                                 self.samples.v[i][ids.v]])
    IN  IF \E k \in 1..Len(idseq) : idseq[k] > nc
        THEN Result("IndexError", None)
        ELSE DatasetInit(cols, SeqArg(self.labels), SeqArg(self.chunks))

\* selectSamples: a scalar mask becomes a one-element list
SelectSamples(self, mask) ==
    LET m == IF mask.kind = "seq" THEN mask.v ELSE <<mask.v>>
        ok(seq) == \A k \in 1..Len(m) : m[k] <= Len(seq)
    IN  IF ~(ok(self.samples.v) /\ ok(self.labels) /\ ok(self.chunks))
        THEN Result("IndexError", None)
        ELSE DatasetInit(Arr(2, Take(self.samples.v, m)),
                         SeqArg(Take(self.labels, m)),
                         SeqArg(Take(self.chunks, m)))

\* getUniqueLabels / getUniqueChunks: the cache is filled on first access
WithUniqueLabels(self) ==
    IF self.uniqueLabels = None
    THEN [self EXCEPT !.uniqueLabels = Some(Unique(self.labels))]
    ELSE self

WithUniqueChunks(self) ==
    IF self.uniqueChunks = None
    THEN [self EXCEPT !.uniqueChunks = Some(Unique(self.chunks))]
    ELSE self

\* permutedRegressors(False): restore the backed-up labels
PermuteDisableKeepBackup(self) ==
    IF self.origlabels = None THEN {Result("RuntimeError", Some(self))}
    ELSE {Result(NoErr, Some(SetLabels(self, self.origlabels[1])))}
PermuteDisable(self) ==
    IF self.origlabels = None THEN {Result("RuntimeError", Some(self))}
    ELSE {Result(NoErr, Some([SetLabels(self, self.origlabels[1])
                                EXCEPT !.origlabels = None]))}

\* labels with the values at the positions idx rearranged among themselves
PermuteAt(labels, idx) ==
    {[i \in 1..Len(labels) |-> IF i \in idx THEN labels[q[i]] ELSE labels[i]] :
        q \in {f \in [idx -> idx] : \A i, j \in idx : f[i] = f[j] => i = j}}

\* lines 210-212: the in-place loop over the unique chunks, from the k-th on.
\* A boolean mask reaching past the end of labels raises IndexError, and the
\* chunks already scrambled stay scrambled.
RECURSIVE PermuteLoop(_, _, _, _)
PermuteLoop(labels, chunks, uc, k) ==
    IF k > Len(uc) THEN {Result(NoErr, labels)}
    ELSE LET idx == Where(chunks, uc[k])
         IN  IF \E i \in idx : i > Len(labels)
             THEN {Result("IndexError", labels)}
             ELSE UNION {PermuteLoop(l, chunks, uc, k + 1) :
                            l \in PermuteAt(labels, idx)}

\* permutedRegressors(True, perchunk).  With len(labels) # len(chunks) the
\* outcome depends on the numpy at hand: a mask of the wrong length is either
\* refused at once or used as far as its True positions are in bounds.
PermuteEnableBackupAfter(self, perchunk) ==
    IF perchunk
    THEN LET s2 == WithUniqueChunks(self)
         IN  {Result(r.err,
                     Some([SetLabels(s2, r.val) EXCEPT !.origlabels = Some(r.val)])) :
                 r \in PermuteLoop(s2.labels, s2.chunks, s2.uniqueChunks[1], 1)}
    ELSE {Result(NoErr, Some([SetLabels(self, [i \in 1..Len(self.labels) |->
                                                 self.labels[p[i]]])
                               EXCEPT !.origlabels = Some(self.labels)])) :
             p \in Perms(Len(self.labels))}
PermuteEnable(self, perchunk) ==
    LET s1 == [self EXCEPT !.origlabels = Some(self.labels)]
    IN  IF perchunk
        THEN LET s2 == WithUniqueChunks(s1)
                 loop == PermuteLoop(s2.labels, s2.chunks,
                                     s2.uniqueChunks[1], 1)
                 strict == IF Len(s2.labels) # Len(s2.chunks)
                           THEN {Result("IndexError", s2.labels)} ELSE {}
             IN  {IF r.err = NoErr
                  THEN Result(NoErr, Some(SetLabels(s2, r.val)))
                  ELSE Result(r.err, Some([s2 EXCEPT !.labels = r.val])) :
                     r \in loop \cup strict}
        ELSE {Result(NoErr,
                     Some(SetLabels(s1, [i \in 1..Len(s1.labels) |->
                                            s1.labels[p[i]]]))) :
                 p \in Perms(Len(s1.labels))}

PermutedRegressors(self, status, perchunk) ==
    IF ~status THEN PermuteDisable(self) ELSE PermuteEnable(self, perchunk)

\* getRandomSamples, lines 237-242: the ids drawn for the i-th unique label
\* and the following ones; random.sample raises ValueError for a sample
\* larger than the population, nperlabel[i] raises IndexError past its end
RECURSIVE Draws(_, _, _, _)
Draws(labels, ul, nperlabel, i) ==
    IF i > Len(ul) THEN {Result(NoErr, <<>>)}
    ELSE IF i > Len(nperlabel) THEN {Result("IndexError", <<>>)}
    ELSE LET pop == Where(labels, ul[i])
         IN  IF nperlabel[i] > Cardinality(pop) \/ nperlabel[i] < 0
             THEN {Result("ValueError", <<>>)}
             ELSE {IF r.err # NoErr THEN r ELSE Result(NoErr, a \o r.val) :
                      a \in Arrangements(pop, nperlabel[i]),
                      r \in Draws(labels, ul, nperlabel, i + 1)}

\* getRandomSamples: [err, val: the new Dataset, self: the receiver after]
GetRandomSamples(self, nperlabel) ==
    LET s1 == WithUniqueLabels(self)
        ul == s1.uniqueLabels[1]
        nper == IF nperlabel.kind = "int" THEN Repeat(nperlabel.v, Len(ul))
                ELSE nperlabel.v
    IN  {[err |-> IF d.err # NoErr THEN d.err
                  ELSE SelectSamples(s1, SeqArg(d.val)).err,
          val |-> IF d.err # NoErr THEN None
                  ELSE SelectSamples(s1, SeqArg(d.val)).val,
          self |-> s1] : d \in Draws(s1.labels, ul, nper, 1)}

\* ------------------------------------------------- names and formatting
\* The names bound at module level in classifier.py: what its imports (lines
\* 13-24) and its class statements bind.  A name outside this set raises
\* NameError where it is evaluated.
ModuleNames ==
    {"operator", "N", "deepcopy", "Set", "MaskMapper", "NoneSplitter",
     "State", "debug", "Classifier", "BoostedClassifier", "ProxyClassifier",
     "Combiner", "MaximalVote", "CombinedClassifier", "BinaryClassifier",
     "MulticlassClassifier", "SplitClassifier", "MappedClassifier",
     "FeatureSelectionClassifier"}
Defined(name) == name \in ModuleNames

\* fmt % arg for an arg that is not a tuple, fmt holding nconv conversion
\* specifiers: the exceptions the expression can end with.  One specifier
\* consumes the argument.  With none the argument is left over, which is a
\* TypeError unless the interpreter takes the argument for a mapping; whether
\* an instance of a Python class without __getitem__ (a sets.Set) counts as
\* one differs between CPython 2 releases.
StrFormat(nconv, instance) ==
    IF nconv = 1 THEN {NoErr}
    ELSE IF nconv > 1 THEN {"TypeError"}
    ELSE IF instance THEN {NoErr, "TypeError"}
    ELSE {"TypeError"}

\* ------------------------------------------------------------ state slots
\* mvpa.misc.state.State: a registry name -> [enabled, value]; a write to a
\* disabled slot is dropped silently.
StateSlot(enabled, value) == [enabled |-> enabled, value |-> value]
IsStateEnabled(obj, name) == obj.states[name].enabled
SetState(obj, name, value) ==
    IF obj.states[name].enabled
    THEN [obj EXCEPT !.states[name].value = Some(value)]
    ELSE obj
GetState(obj, name) == obj.states[name].value[1]
EnableState(obj, name, enabled) ==
    [obj EXCEPT !.states[name].enabled = enabled]

\* Classifier.__init__: the four slots every classifier registers
ClassifierInit ==
    [states |-> [trained_values |-> StateSlot(FALSE, None),
                 trained_predictions |-> StateSlot(FALSE, None),
                 values |-> StateSlot(FALSE, None),
                 predictions |-> StateSlot(TRUE, None)]]

\* ------------------------------------------------------------ MaximalVote
\* A prediction for one sample: a label, or a sequence of labels (what a
\* BinaryClassifier over several labels returns).
Single(label) == [seq |-> FALSE, v |-> <<label>>]
Several(labels) == [seq |-> TRUE, v |-> labels]

\* lines 282-283: a prediction that is no sequence becomes a 1-tuple
PredictionLabels(prediction) ==
    IF ~prediction.seq THEN <<prediction.v[1]>> ELSE prediction.v

MaximalVoteInit ==
    [states |-> [predictions |-> StateSlot(TRUE, None),
                 all_label_counts |-> StateSlot(FALSE, None)]]

\* A dict label -> count is a function over all labels; 0 stands for a label
\* that is no key (a key's count is at least 1).
EmptyDict == [l \in 1..MaxLabel |-> 0]

\* lines 284-289: count every label of one prediction
RECURSIVE CountLabels(_, _, _)
CountLabels(dict, labels, k) ==
    IF k > Len(labels) THEN dict
    ELSE CountLabels([dict EXCEPT ![labels[k]] = @ + 1], labels, k + 1)

\* lines 270-289: the loop over the classifiers, from the k-th on
RECURSIVE Tally(_, _, _)
Tally(clfs, k, counts) ==
    IF k > Len(clfs) THEN Result(NoErr, counts)
    ELSE IF ~IsStateEnabled(clfs[k], "predictions")
    THEN Result("ValueError", counts)
    ELSE LET predictions == GetState(clfs[k], "predictions")
             c0 == IF counts = None
                   THEN [i \in 1..Len(predictions) |-> EmptyDict]
                   ELSE counts[1]
         IN  IF Len(predictions) > Len(c0)
             THEN Result("IndexError", Some(c0))
             ELSE Tally(clfs, k + 1,
                     Some([i \in 1..Len(c0) |->
                            IF i <= Len(predictions)
                            THEN CountLabels(c0[i],
                                    PredictionLabels(predictions[i]), 1)
                            ELSE c0[i]]))

\* dict.iteritems() of a dict keyed by small non-negative ints visits the
\* keys in ascending order
DictKeys(dict) == SortedSeq({l \in 1..MaxLabel : dict[l] > 0})

\* lines 297-304: the explicit search for the keys of maximal count
RECURSIVE MaxScan(_, _, _, _, _)
MaxScan(dict, keys, i, maxk, maxv) ==
    IF i > Len(keys) THEN maxk
    ELSE LET v == dict[keys[i]]
         IN  IF v > maxv THEN MaxScan(dict, keys, i + 1, <<keys[i]>>, v)
             ELSE IF v = maxv
             THEN MaxScan(dict, keys, i + 1, Append(maxk, keys[i]), maxv)
             ELSE MaxScan(dict, keys, i + 1, maxk, maxv)
MaxKeys(dict) == MaxScan(dict, DictKeys(dict), 1, <<>>, -1)

\* lines 293-312: one label per sample, from the i-th sample on
RECURSIVE SelectMax(_, _, _)
SelectMax(counts, i, predictions) ==
    IF i > Len(counts) THEN Result(NoErr, predictions)
    ELSE LET maxk == MaxKeys(counts[i])
         IN  IF Len(maxk) < 1 THEN Result("AssertionError", predictions)
             ELSE IF Len(maxk) > 1 /\ ~Defined("warning")
             THEN Result("NameError", predictions)
             ELSE SelectMax(counts, i + 1, Append(predictions, maxk[1]))

\* MaximalVote.__call__: [err, ret: what it returns, self: the combiner after]
MaximalVoteCall(self, clfs) ==
    IF Len(clfs) = 0 THEN [err |-> NoErr, ret |-> Some(<<>>), self |-> self]
    ELSE LET t == Tally(clfs, 1, None)
         IN  IF t.err # NoErr
             THEN [err |-> t.err, ret |-> None, self |-> self]
             ELSE LET s == SelectMax(t.val[1], 1, <<>>)
                  IN  IF s.err # NoErr
                      THEN [err |-> s.err, ret |-> None, self |-> self]
                      ELSE [err |-> NoErr, ret |-> Some(s.val),
                            self |-> SetState(
                                SetState(self, "all_label_counts", t.val[1]),
                                "predictions", s.val)]

\* ------------------------------------------------------- BinaryClassifier
\* list(Set(labels)): the distinct labels; a Set of small non-negative ints
\* iterates in ascending order
SetToList(labels) == SortedSeq(Range(labels))

\* lines 415-423: a single label is returned bare, several as the list
PredictAs(labels) ==
    IF Len(labels) > 1 THEN Several(labels) ELSE Single(labels[1])

\* BinaryClassifier.__init__: the outcomes [err, val: the new object]
BinaryClassifierInit(clf, poslabels, neglabels) ==
    LET sposlabels == SetToList(poslabels)
        sneglabels == SetToList(neglabels)
        overlap == Range(sposlabels) \cap Range(sneglabels)
    IN  IF Cardinality(overlap) > 0
        THEN {Result(IF e = NoErr THEN "ValueError" ELSE e, None) :
                 e \in StrFormat(0, TRUE)}
        ELSE IF Len(sposlabels) = 0 \/ Len(sneglabels) = 0
        THEN {Result("IndexError", None)}
        ELSE {Result(NoErr,
                     Some([clf |-> clf,
                           states |-> ClassifierInit.states,
                           poslabels |-> sposlabels,
                           neglabels |-> sneglabels,
                           predictpos |-> PredictAs(sposlabels),
                           predictneg |-> PredictAs(sneglabels)]))}

\* the attributes a Dataset has, and those __init__ gives a BinaryClassifier
\* (a name with two leading underscores is mangled with the name of the class
\* whose body holds it)
DatasetAttrs ==
    {"samples", "labels", "chunks", "nsamples", "nfeatures", "uniquelabels",
     "uniquechunks", "samplesperlabel", "samplesperchunk", "selectFeatures",
     "selectSamples", "permutedRegressors", "getRandomSamples"}
BinaryClassifierAttrs ==
    {"_ProxyClassifier__clf", "_BinaryClassifier__poslabels",
     "_BinaryClassifier__neglabels", "_BinaryClassifier__predictpos",
     "_BinaryClassifier__predictneg"}

\* BinaryClassifier.train, lines 431-432 and 450: the exception it ends with
BinaryClassifierTrain(self, data) ==
    IF "idsbylabels" \notin DatasetAttrs THEN "AttributeError"
    ELSE IF "_BinaryClassifier__clf" \notin BinaryClassifierAttrs
    THEN "AttributeError"
    ELSE NoErr

\* ------------------------------------- BoostedClassifier, MulticlassClassifier
\* BoostedClassifier.__init__
BoostedClassifierInit(clfs) ==
    [clfs |-> clfs,
     states |-> [trained_values |-> StateSlot(FALSE, None),
                 trained_predictions |-> StateSlot(FALSE, None),
                 values |-> StateSlot(FALSE, None),
                 predictions |-> StateSlot(TRUE, None),
                 raw_predictions |-> StateSlot(FALSE, None)]]

\* BoostedClassifier.train: the children are trained in order; the exception
\* of the first that fails
BoostedClassifierTrain(self, data) ==
    LET failed == {k \in 1..Len(self.clfs) :
                      BinaryClassifierTrain(self.clfs[k], data) # NoErr}
    IN  IF failed = {} THEN NoErr
        ELSE BinaryClassifierTrain(
                 self.clfs[CHOOSE k \in failed : \A m \in failed : k <= m],
                 data)

\* the classifier the ensembles are built from, and a deep copy of an object:
\* equal in content, another identity
LeafClassifier ==
    [id |-> 0, kind |-> "leaf", states |-> ClassifierInit.states,
     trained |-> <<>>]
Deepcopy(obj, id) == [obj EXCEPT !.id = id]

\* an instance of the base class itself, whose train and predict raise
BaseClassifier == [LeafClassifier EXCEPT !.kind = "Classifier"]

\* train of a concrete classifier (a class outside classifier.py): it keeps
\* the data it was given, call after call
LeafTrain(clf, data) == [clf EXCEPT !.trained = Append(@, data)]

\* clf.train(data) for a classifier that is no composite: [err, val: clf after]
ClassifierTrain(clf, data) ==
    IF clf.kind = "Classifier" THEN Result("NotImplementedError", clf)
    ELSE Result(NoErr, LeafTrain(clf, data))

\* MulticlassClassifier.__init__
MulticlassClassifierInit(clf, bclf_type) ==
    IF bclf_type = "1-vs-1"
    THEN Result(NoErr, Some([clf |-> clf, bclf_type |-> bclf_type,
                             states |-> ClassifierInit.states]))
    ELSE IF bclf_type = "1-vs-all" THEN Result("NotImplementedError", None)
    ELSE Result("ValueError", None)

\* lines 524-531: the loop over the pairs (i, j), i < j, from the pair given
RECURSIVE BuildPairs(_, _, _, _, _)
BuildPairs(clf, ulabels, i, j, biclfs) ==
    IF i > Len(ulabels) THEN {Result(NoErr, biclfs)}
    ELSE IF j > Len(ulabels)
    THEN BuildPairs(clf, ulabels, i + 1, i + 2, biclfs)
    ELSE IF ~Defined("deepcopy") \/ ~Defined("BinaryClassifier")
            \/ ~Defined("copy")
    THEN {Result("NameError", biclfs)}
    ELSE LET c == Deepcopy(Deepcopy(clf, 2 * Len(biclfs) + 1),
                           2 * Len(biclfs) + 2)
         IN  UNION {IF b.err # NoErr THEN {Result(b.err, biclfs)}
                    ELSE BuildPairs(clf, ulabels, i, j + 1,
                                    Append(biclfs, b.val[1])) :
                       b \in BinaryClassifierInit(c, <<ulabels[i]>>,
                                                  <<ulabels[j]>>)}

\* MulticlassClassifier.train: the outcomes [err, bclf: the ensemble after]
MulticlassClassifierTrain(self, bclf, data) ==
    LET ulabels == WithUniqueLabels(data).uniqueLabels[1]
    IN  IF self.bclf_type = "1-vs-1"
        THEN {IF r.err # NoErr THEN [err |-> r.err, bclf |-> bclf]
              ELSE [err |-> BoostedClassifierTrain(
                                [bclf EXCEPT !.clfs = r.val], data),
                    bclf |-> [bclf EXCEPT !.clfs = r.val]] :
                 r \in BuildPairs(self.clf, ulabels, 1, 2, <<>>)}
        ELSE {[err |-> "NotImplementedError", bclf |-> bclf]}

\* ------------------------------------------------- BoostedClassifier.predict
\* predict of a concrete classifier: what it decided goes to its states
\* predictions and values, where enabled
LeafPredict(clf, raw) ==
    SetState(SetState(clf, "predictions", raw), "values", raw)

\* what a concrete classifier decides for the samples given: label 1 for a
\* sample of the data it was last trained on, label 2 for any other
Decide(clf, samples) ==
    [i \in 1..Len(samples) |->
        Single(IF /\ clf.trained # <<>>
                  /\ samples[i] \in Range(clf.trained[Len(clf.trained)])
               THEN 1 ELSE 2)]

\* clf.predict(data) for a classifier that is no composite, raw being what a
\* concrete classifier decides: [err, ret, clf]
ClassifierPredict(clf, raw) ==
    IF clf.kind = "Classifier"
    THEN [err |-> "NotImplementedError", ret |-> None, clf |-> clf]
    ELSE [err |-> NoErr, ret |-> Some(raw), clf |-> LeafPredict(clf, raw)]

\* obj[name]: the exception the read of a state ends with
StateRead(obj, name) ==
    IF name \notin DOMAIN obj.states THEN "UnknownStateError"
    ELSE IF ~obj.states[name].enabled THEN "DisabledStateError"
    ELSE IF obj.states[name].value = None THEN "NoValueSetError"
    ELSE NoErr

\* line 154: the children predict in order, from the k-th on
RECURSIVE PredictAll(_, _, _, _)
PredictAll(clfs, samples, k, raw) ==
    IF k > Len(clfs) THEN [err |-> NoErr, clfs |-> clfs, raw |-> raw]
    ELSE LET p == ClassifierPredict(clfs[k], Decide(clfs[k], samples))
         IN  IF p.err # NoErr
             THEN [err |-> p.err, clfs |-> clfs, raw |-> raw]
             ELSE PredictAll([clfs EXCEPT ![k] = p.clf], samples, k + 1,
                             Append(raw, p.ret[1]))

\* BoostedClassifier.predict: [err, ret, self].  The name clf of line 155 is
\* the variable of the list comprehension of line 154: the last child, and
\* unbound when there is no child.
BoostedClassifierPredict(self, samples) ==
    LET a == PredictAll(self.clfs, samples, 1, <<>>)
        s1 == [self EXCEPT !.clfs = a.clfs]
        n == Len(self.clfs)
        unreadable == {k \in 1..n : StateRead(a.clfs[k], "values") # NoErr}
        first == CHOOSE k \in unreadable : \A m \in unreadable : k <= m
    IN  IF a.err # NoErr THEN [err |-> a.err, ret |-> None, self |-> s1]
        ELSE IF n = 0
        THEN [err |-> "UnboundLocalError", ret |-> None, self |-> s1]
        ELSE IF /\ IsStateEnabled(a.clfs[n], "values")
                /\ IsStateEnabled(self, "values")
        THEN IF unreadable # {}
             THEN [err |-> StateRead(a.clfs[first], "values"),
                   ret |-> None, self |-> s1]
             ELSE IF StateRead(self, "raw_values") = "UnknownStateError"
             THEN [err |-> "UnknownStateError", ret |-> None, self |-> s1]
             ELSE [err |-> NoErr, ret |-> Some(a.raw),
                   self |-> SetState(
                       SetState(s1, "raw_values",
                           [k \in 1..n |-> GetState(a.clfs[k], "values")]),
                       "raw_predictions", a.raw)]
        ELSE [err |-> NoErr, ret |-> Some(a.raw),
              self |-> SetState(s1, "raw_predictions", a.raw)]

\* ------------------------------------- CombinedClassifier, SplitClassifier
\* CombinedClassifier.__init__
CombinedClassifierInit(clfs, combiner) ==
    [clfs |-> clfs, combiner |-> combiner,
     states |-> BoostedClassifierInit(clfs).states]

\* CombinedClassifier.predict: [err, ret, self]
CombinedClassifierPredict(self, samples) ==
    LET b == BoostedClassifierPredict(self, samples)
        v == MaximalVoteCall(b.self.combiner, b.self.clfs)
        s2 == SetState([b.self EXCEPT !.combiner = v.self],
                       "predictions", v.ret[1])
    IN  IF b.err # NoErr THEN [err |-> b.err, ret |-> None, self |-> b.self]
        ELSE IF v.err # NoErr
        THEN [err |-> v.err, ret |-> None, self |-> b.self]
        ELSE IF ~IsStateEnabled(s2, "values")
        THEN [err |-> NoErr, ret |-> v.ret, self |-> s2]
        ELSE IF "values" \notin DOMAIN v.self.states
        THEN [err |-> "UnknownStateError", ret |-> None, self |-> s2]
        ELSE IF IsStateEnabled(v.self, "values")
        THEN IF StateRead(v.self, "values") # NoErr
             THEN [err |-> StateRead(v.self, "values"), ret |-> None,
                   self |-> s2]
             ELSE [err |-> NoErr, ret |-> v.ret,
                   self |-> SetState(s2, "values",
                                     GetState(v.self, "values"))]
        ELSE IF ~Defined("warning")
        THEN [err |-> "NameError", ret |-> None, self |-> s2]
        ELSE [err |-> NoErr, ret |-> v.ret, self |-> s2]

\* SplitClassifier.__init__, bclf and splitter left to their defaults
SplitClassifierInit(clf) == [clf |-> clf, states |-> ClassifierInit.states]

\* a loop that trains the prototype itself, split after split
RECURSIVE SplitLoopSharedPrototype(_, _, _, _)
SplitLoopSharedPrototype(clf, splits, i, bclfs) ==
    IF i > Len(splits) THEN Result(NoErr, bclfs)
    ELSE LET t == ClassifierTrain(clf, splits[i])
         IN  IF t.err # NoErr THEN Result(t.err, bclfs)
             ELSE SplitLoopSharedPrototype(t.val, splits, i + 1,
                                           Append(bclfs, t.val))

\* lines 588-596: the loop over the splits the splitter yields, from the
\* i-th on; the i-th copy of the prototype gets the identity i
RECURSIVE SplitLoop(_, _, _, _)
SplitLoop(clf, splits, i, bclfs) ==
    IF i > Len(splits) THEN Result(NoErr, bclfs)
    ELSE IF ~Defined("deepcopy") THEN Result("NameError", bclfs)
    ELSE LET t == ClassifierTrain(Deepcopy(clf, i), splits[i])
         IN  IF t.err # NoErr THEN Result(t.err, bclfs)
             ELSE SplitLoop(clf, splits, i + 1, Append(bclfs, t.val))

\* SplitClassifier.train, splits being what the splitter yields for the
\* data: [err, bclf: the ensemble after]
SplitClassifierTrain(self, bclf, splits) ==
    LET r == SplitLoop(self.clf, splits, 1, <<>>)
    IN  IF r.err # NoErr THEN [err |-> r.err, bclf |-> bclf]
        ELSE [err |-> NoErr, bclf |-> [bclf EXCEPT !.clfs = r.val]]

\* ---------------------------------------------- states, switched for a while
\* State.copyStates: every slot registered on both takes source's flag and
\* value
CopyStates(self, source) ==
    [self EXCEPT !.states =
        [n \in DOMAIN self.states |->
            IF n \in DOMAIN source.states THEN source.states[n]
            ELSE self.states[n]]]

\* State.enableStateTemporarily: [err, val: obj after]; the flags the names
\* had are kept in temp, and a second call before the reset fails
EnableStatesTemporarily(obj, names) ==
    IF obj.temp # None THEN Result("RuntimeError", obj)
    ELSE Result(NoErr,
            [obj EXCEPT
                !.temp = Some([n \in names |-> obj.states[n].enabled]),
                !.states = [n \in DOMAIN obj.states |->
                               IF n \in names
                               THEN StateSlot(TRUE, obj.states[n].value)
                               ELSE obj.states[n]]])

\* State.resetEnabledTemporarily: the flags kept in temp are put back
ResetEnabledTemporarily(obj) ==
    IF obj.temp = None THEN obj
    ELSE [obj EXCEPT
            !.temp = None,
            !.states = [n \in DOMAIN obj.states |->
                           IF n \in DOMAIN obj.temp[1]
                           THEN StateSlot(obj.temp[1][n], obj.states[n].value)
                           ELSE obj.states[n]]]

\* ------------------------------- ProxyClassifier, FeatureSelectionClassifier
\* ProxyClassifier.__init__
ProxyClassifierInit(clf) == [clf |-> clf, states |-> ClassifierInit.states]

\* ProxyClassifier.train: [err, self]
ProxyClassifierTrain(self, data) ==
    LET t == ClassifierTrain(self.clf, data)
    IN  IF ~Defined("wdata") THEN [err |-> "NameError", self |-> self]
        ELSE IF t.err # NoErr THEN [err |-> t.err, self |-> self]
        ELSE [err |-> NoErr,
              self |-> CopyStates([self EXCEPT !.clf = t.val], t.val)]

\* ProxyClassifier.predict, raw being what the wrapped classifier decides:
\* [err, ret, self]
ProxyClassifierPredict(self, raw) ==
    LET p == ClassifierPredict(self.clf, raw)
    IN  IF p.err # NoErr THEN [err |-> p.err, ret |-> None, self |-> self]
        ELSE [err |-> NoErr, ret |-> p.ret,
              self |-> CopyStates([self EXCEPT !.clf = p.clf], p.clf)]

\* a predict that maps +1 to the negative labels and -1 to the positive
BinaryClassifierPredictSwapped(self, raw) ==
    LET p == ProxyClassifierPredict(self, raw)
        predictions == [i \in 1..Len(raw) |->
                           IF raw[i] = 1 THEN self.predictneg
                           ELSE self.predictpos]
    IN  IF p.err # NoErr THEN p
        ELSE [err |-> NoErr, ret |-> Some(predictions),
              self |-> SetState(SetState(p.self, "values", raw),
                                "predictions", predictions)]

\* BinaryClassifier.predict: [err, ret, self]; the dict of line 463 has the
\* keys -1 and +1 only
BinaryClassifierPredict(self, raw) ==
    LET p == ProxyClassifierPredict(self, raw)
        predictions == [i \in 1..Len(raw) |->
                           IF raw[i] = 1 THEN self.predictpos
                           ELSE self.predictneg]
    IN  IF p.err # NoErr THEN p
        ELSE IF \E i \in 1..Len(raw) : raw[i] # -1 /\ raw[i] # 1
        THEN [err |-> "KeyError", ret |-> None,
              self |-> SetState(p.self, "values", raw)]
        ELSE [err |-> NoErr, ret |-> Some(predictions),
              self |-> SetState(SetState(p.self, "values", raw),
                                "predictions", predictions)]

\* a FeatureSelection: a State with the slot selected_ids
FeatureSelectionInit ==
    [states |-> [selected_ids |-> StateSlot(FALSE, None)], temp |-> None]

\* feature_selection(data): it raises, or stores the ids it selected and
\* returns the Dataset of these features; sel is what it decides
FeatureSelectionCall(fs, data, sel) ==
    IF sel = None THEN [err |-> "ValueError", fs |-> fs, wdata |-> None]
    ELSE [err |-> NoErr, fs |-> SetState(fs, "selected_ids", sel[1]),
          wdata |-> Some([nfeatures |-> Len(sel[1]), features |-> sel[1]])]

\* FeatureSelectionClassifier.__init__
FeatureSelectionClassifierInit(clf, feature_selection) ==
    [clf |-> clf, states |-> ClassifierInit.states, maskclf |-> None,
     feature_selection |-> feature_selection]

\* lines 688-699 without the release of line 701
SelectAndMaskNoReset(fs, data, sel) ==
    LET e == EnableStatesTemporarily(fs, {"selected_ids"})
        c == FeatureSelectionCall(e.val, data, sel)
    IN  IF e.err # NoErr
        THEN [err |-> e.err, fs |-> fs, wdata |-> None, mask |-> None]
        ELSE IF c.err # NoErr
        THEN [err |-> c.err, fs |-> c.fs, wdata |-> None, mask |-> None]
        ELSE [err |-> NoErr, fs |-> c.fs, wdata |-> c.wdata,
              mask |-> Some([f \in 1..data.nfeatures |->
                               IF f \in Range(GetState(c.fs, "selected_ids"))
                               THEN 1 ELSE 0])]

\* lines 688-701: the selection under the temporarily enabled state and the
\* mask made of the ids it selected: [err, fs: the selection after, wdata,
\* mask]
SelectAndMask(fs, data, sel) ==
    LET e == EnableStatesTemporarily(fs, {"selected_ids"})
        c == FeatureSelectionCall(e.val, data, sel)
    IN  IF e.err # NoErr
        THEN [err |-> e.err, fs |-> fs, wdata |-> None, mask |-> None]
        ELSE IF c.err # NoErr
        THEN [err |-> c.err, fs |-> c.fs, wdata |-> None, mask |-> None]
        ELSE [err |-> NoErr, fs |-> ResetEnabledTemporarily(c.fs),
              wdata |-> c.wdata,
              mask |-> Some([f \in 1..data.nfeatures |->
                               IF f \in Range(GetState(c.fs, "selected_ids"))
                               THEN 1 ELSE 0])]

\* FeatureSelectionClassifier.train: [err, self: the classifier after]
FeatureSelectionClassifierTrain(self, data, sel) ==
    LET m == SelectAndMask(self.feature_selection, data, sel)
        s1 == [self EXCEPT !.feature_selection = m.fs]
        maskclf == [mapper |-> m.mask[1], states |-> ClassifierInit.states]
        s2 == [s1 EXCEPT !.maskclf = Some(maskclf)]
        t == ClassifierTrain(self.clf, m.wdata[1])
    IN  IF m.err # NoErr THEN [err |-> m.err, self |-> s1]
        ELSE IF t.err # NoErr THEN [err |-> t.err, self |-> s2]
        ELSE [err |-> NoErr,
              self |-> CopyStates([s2 EXCEPT !.clf = t.val], maskclf)]

\* ------------------------------------------------------------- OneWayAnova
\* A float is kept as a fraction n/d with d >= 0; d = 0 stands for inf
\* (n > 0), -inf (n < 0) and nan (n = 0).  Sums and products of the small
\* integers used here are exact in floating point.
Frac(n, d) == [n |-> n, d |-> d]
IsNan(x) == x.d = 0 /\ x.n = 0

\* x / y of numpy floats: a division by zero gives inf or nan, no exception
FDiv(x, y) ==
    IF x.d * y.n < 0 THEN Frac(-(x.n * y.d), -(x.d * y.n))
    ELSE Frac(x.n * y.d, x.d * y.n)

RECURSIVE SumSeq(_)
SumSeq(seq) == IF seq = <<>> THEN 0 ELSE seq[1] + SumSeq(Tail(seq))

\* a common multiple of every count from 1 to n
RECURSIVE Factorial(_)
Factorial(n) == IF n <= 1 THEN 1 ELSE n * Factorial(n - 1)

\* OneWayAnova._call for one feature: values are the column of samples,
\* labels the targets.  The sums of squares are carried multiplied by
\* scale, which every group size divides.
OneWayAnova(values, labels) ==
    LET ul == Unique(labels)
        na == Len(ul)
        bign == Len(values)
        scale == Factorial(bign)
        sq(v) == v * v
        sostot == sq(SumSeq(values)) * (scale \div bign)
        sstot == scale * SumSeq([i \in 1..bign |-> sq(values[i])]) - sostot
        group(l) == Take(values, SortedSeq(Where(labels, l)))
        ssbn == SumSeq([k \in 1..na |->
                    sq(SumSeq(group(ul[k])))
                        * (scale \div Len(group(ul[k])))]) - sostot
        sswn == sstot - ssbn
        dfbn == na - 1
        dfwn == bign - na
        msb == FDiv(Frac(ssbn, scale), Frac(dfbn, 1))
        msw == FDiv(Frac(sswn, scale), Frac(dfwn, 1))
        f == FDiv(msb, msw)
    IN  IF IsNan(f) THEN Frac(0, 1) ELSE f

\* ------------------------------------------------- default arguments of bclf
\* SplitClassifier.__init__ with its argument bclf: None stands for the
\* argument left out, whose value is the one CombinedClassifier the def
\* statement made when the class body ran
SplitClassifierInitWith(clf, bclf) ==
    [clf |-> clf, states |-> ClassifierInit.states, bclf |-> bclf]

\* self.__bclf, default being the object of the default argument
Bclf(self, default) == IF self.bclf = None THEN default ELSE self.bclf[1]

\* ------------------------------------------------------------------ state
VARIABLES
    ds,     \* the Dataset under study (the object bound to the variable d)
    gh,     \* history: where ds stands in a permute cycle, and while a
            \* permutation is active the labels ds had before it and its mode
    res,    \* the Dataset the last call returned (None if it returned none)
    last,   \* the last call: its name, operands, arguments and exception
    mv,     \* a MaximalVote combiner
    out,    \* what the combiner's last call returned (None if it raised)
    bin,    \* the BinaryClassifier the last constructor call made, if any
    mc,     \* the MulticlassClassifier the last constructor call made, if any
    bclf,   \* the BoostedClassifier that is MulticlassClassifier's default bclf
    cc,     \* a CombinedClassifier (SplitClassifier's bclf)
    sc,     \* the SplitClassifier the last constructor call made
    px,     \* a ProxyClassifier around a concrete classifier
    fsc,    \* a FeatureSelectionClassifier, its feature selection inside
    nodes   \* two SplitClassifiers side by side (None: not constructed yet)

dsvars == <<ds, gh, res>>
cmpvars == <<cc, sc, px, fsc, nodes>>
clfvars == <<mv, out, bin, mc, bclf, cmpvars>>
vars == <<ds, gh, res, last, mv, out, bin, mc, bclf, cc, sc, px, fsc, nodes>>

\* ----------------------------------------------------------------- inputs
\* (tuples, not sets: their members are of different shapes)
A2x1 == Arr(2, <<<<1>>, <<2>>>>)
L1d == List(1, <<1, 2>>)
L3d == List(3, <<<<<<1>>>>>>)
CtorArgs ==
    << <<A2x1, ScalarArg(1), NoneArg>>,
       <<A2x1, SeqArg(<<1, 2>>), ScalarArg(0)>>,
       <<A2x1, SeqArg(<<2>>), NoneArg>>,
       <<A2x1, SeqArg(<<1, 2>>), SeqArg(<<0>>)>>,
       <<L1d, ScalarArg(2), SeqArg(<<0>>)>>,
       <<L3d, ScalarArg(1), NoneArg>> >>
FeatureIds == <<SeqArg(<<1>>), SeqArg(<<2>>), ScalarArg(1)>>
SampleMasks == <<SeqArg(<<1>>), SeqArg(<<1, 2>>), ScalarArg(2)>>
IntArg(v) == [kind |-> "int", v |-> v]
NPerLabel == <<IntArg(1), IntArg(2), SeqArg(<<1>>), SeqArg(<<1, 1>>)>>

GhOff == [phase |-> "off", saved |-> None, mode |-> FALSE]

InitDataset == DatasetInit(List(2, <<<<1>>>>), SeqArg(<<1>>), NoneArg).val[1]

Init ==
    /\ ds = InitDataset
    /\ gh = GhOff
    /\ res = None
    /\ last = Call("start", "d", "d", None, NoErr, "off")
    /\ mv = MaximalVoteInit
    /\ out = None
    /\ bin = None
    /\ mc = MulticlassClassifierInit(LeafClassifier, "1-vs-1").val
    /\ bclf = BoostedClassifierInit(<<>>)
    /\ cc = CombinedClassifierInit(<<>>, MaximalVoteInit)
    /\ sc = SplitClassifierInit(LeafClassifier)
    /\ px = ProxyClassifierInit(LeafClassifier)
    /\ fsc = FeatureSelectionClassifierInit(LeafClassifier, FeatureSelectionInit)
    /\ nodes = <<None, None>>

\* an operand of a call: the Dataset d, or the Dataset just returned
Operands == {"d"} \cup (IF res = None THEN {} ELSE {"res"})
Obj(x) == IF x = "d" THEN ds ELSE res[1]

\* Dataset(samples, labels, chunks)
Construct(s, l, c) ==
    \E r \in {DatasetInit(s, l, c)} :
        /\ res' = r.val
        /\ last' = Call("init", "d", "d", <<s, l, c>>, r.err, gh.phase)
        /\ UNCHANGED <<ds, gh, clfvars>>

\* d = <the Dataset just returned>
Rebind ==
    /\ res # None
    /\ ds' = res[1]
    /\ gh' = GhOff
    /\ res' = None
    /\ last' = Call("rebind", "d", "d", None, NoErr, gh.phase)
    /\ UNCHANGED clfvars

\* d += other (the model stops growing a Dataset at MaxSamples samples)
Extend(b) ==
    \E r \in {Iadd(ds, Obj(b))} :
        /\ r.err = NoErr => NRows(r.val[1].samples) <= MaxSamples
        /\ ds' = r.val[1]
        /\ gh' = IF r.err = NoErr /\ gh.phase # "off"
                 THEN [GhOff EXCEPT !.phase = "stale"]
                 ELSE gh
        /\ res' = None
        /\ last' = Call("iadd", "d", b, None, r.err, gh.phase)
        /\ UNCHANGED clfvars

\* a + b
Concat(a, b) ==
    \E r \in {Add(Obj(a), Obj(b))} :
        /\ r.err = NoErr => NRows(r.val[1].samples) <= MaxSamples
        /\ res' = r.val
        /\ last' = Call("add", a, b, None, r.err, gh.phase)
        /\ UNCHANGED <<ds, gh, clfvars>>

\* d.selectFeatures(ids)
SelFeatures(ids) ==
    \E r \in {SelectFeatures(ds, ids)} :
        /\ res' = r.val
        /\ last' = Call("selectFeatures", "d", "d", ids, r.err, gh.phase)
        /\ UNCHANGED <<ds, gh, clfvars>>

\* d.selectSamples(mask)
SelSamples(mask) ==
    \E r \in {SelectSamples(ds, mask)} :
        /\ res' = r.val
        /\ last' = Call("selectSamples", "d", "d", mask, r.err, gh.phase)
        /\ UNCHANGED <<ds, gh, clfvars>>

\* d.permutedRegressors(status, perchunk)
Permute(status, perchunk) ==
    \E r \in PermutedRegressors(ds, status, perchunk) :
        /\ ds' = r.val[1]
        /\ gh' = IF status
                 THEN IF gh.phase = "off"
                      THEN [phase |-> "on", saved |-> Some(ds.labels),
                            mode |-> perchunk]
                      ELSE [GhOff EXCEPT !.phase = "stale"]
                 ELSE IF r.err = NoErr THEN GhOff ELSE gh
        /\ res' = None
        /\ last' = Call(IF status THEN "permuteOn" ELSE "permuteOff", "d",
                        "d",
                        [perchunk |-> perchunk, saved |-> gh.saved,
                         mode |-> gh.mode,
                         moved |-> gh.saved # None /\ gh.saved[1] # ds.labels],
                        r.err, gh.phase)
        /\ UNCHANGED clfvars

\* d.getRandomSamples(nperlabel)
RandomSamples(nperlabel) ==
    \E r \in GetRandomSamples(ds, nperlabel) :
        /\ ds' = r.self
        /\ res' = r.val
        /\ last' = Call("getRandomSamples", "d", "d", nperlabel, r.err,
                        gh.phase)
        /\ UNCHANGED <<gh, clfvars>>

\* d.uniquelabels and d.uniquechunks
ReadUniqueLabels ==
    /\ ds' = WithUniqueLabels(ds)
    /\ res' = None
    /\ last' = Call("uniquelabels", "d", "d", None, NoErr, gh.phase)
    /\ UNCHANGED <<gh, clfvars>>

ReadUniqueChunks ==
    /\ ds' = WithUniqueChunks(ds)
    /\ res' = None
    /\ last' = Call("uniquechunks", "d", "d", None, NoErr, gh.phase)
    /\ UNCHANGED <<gh, clfvars>>

Next ==
    \/ \E i \in DOMAIN CtorArgs :
          Construct(CtorArgs[i][1], CtorArgs[i][2], CtorArgs[i][3])
    \/ Rebind
    \/ \E b \in Operands : Extend(b)
    \/ \E a, b \in Operands : Concat(a, b)
    \/ \E i \in DOMAIN FeatureIds : SelFeatures(FeatureIds[i])
    \/ \E i \in DOMAIN SampleMasks : SelSamples(SampleMasks[i])
    \/ \E status \in BOOLEAN, perchunk \in BOOLEAN : Permute(status, perchunk)
    \/ \E i \in DOMAIN NPerLabel : RandomSamples(NPerLabel[i])
    \/ ReadUniqueLabels
    \/ ReadUniqueChunks

Spec == Init /\ [][Next]_vars

\* ------------------------------------------------------ the combiner's calls
\* a classifier after predict: its predictions are in its state, unless the
\* state is disabled
Predicted(enabled, predictions) ==
    SetState(EnableState(ClassifierInit, "predictions", enabled),
             "predictions", predictions)

ClfPool ==
    << Predicted(TRUE, <<Single(1), Single(2)>>),
       Predicted(TRUE, <<Single(1), Single(3)>>),
       Predicted(TRUE, <<Several(<<1, 2>>), Single(3)>>),
       Predicted(TRUE, <<Single(1)>>),
       Predicted(FALSE, <<Single(1), Single(2)>>) >>

\* mv(clfs)
Vote(clfs) ==
    \E r \in {MaximalVoteCall(mv, clfs)} :
        /\ mv' = r.self
        /\ out' = r.ret
        /\ last' = Call("vote", "mv", "mv", clfs, r.err, "off")
        /\ UNCHANGED <<dsvars, cmpvars, bin, mc, bclf>>

\* enabling the combiner's state all_label_counts, which is registered
\* disabled
EnableCounts ==
    /\ mv' = EnableState(mv, "all_label_counts", TRUE)
    /\ out' = None
    /\ last' = Call("enable", "mv", "mv", "all_label_counts", NoErr, "off")
    /\ UNCHANGED <<dsvars, cmpvars, bin, mc, bclf>>

NextVote ==
    \/ \E n \in 0..MaxClfs : \E ix \in [1..n -> DOMAIN ClfPool] :
          Vote([k \in 1..n |-> ClfPool[ix[k]]])
    \/ EnableCounts

SpecVote == Init /\ [][NextVote]_vars

\* --------------------------------------------- building binary classifiers
LabelLists == << <<>>, <<1>>, <<2>>, <<1, 2>>, <<2, 3>>, <<1, 1>>, <<3, 2, 3>> >>
BclfTypes == {"1-vs-1", "1-vs-all", "1-vs-rest"}

\* BinaryClassifier(clf, poslabels, neglabels)
NewBinary(poslabels, neglabels) ==
    \E r \in BinaryClassifierInit(LeafClassifier, poslabels, neglabels) :
        /\ bin' = r.val
        /\ last' = Call("binaryInit", "bin", "bin", <<poslabels, neglabels>>,
                        r.err, "off")
        /\ UNCHANGED <<dsvars, cmpvars, mv, out, mc, bclf>>

\* MulticlassClassifier(clf, bclf_type=...), bclf left to its default
NewMulticlass(bclf_type) ==
    \E r \in {MulticlassClassifierInit(LeafClassifier, bclf_type)} :
        /\ mc' = r.val
        /\ last' = Call("multiInit", "mc", "mc", bclf_type, r.err, "off")
        /\ UNCHANGED <<dsvars, cmpvars, mv, out, bin, bclf>>

\* mc.train(data), data a new Dataset with the labels given
TrainMulti(labels) ==
    /\ mc # None
    /\ LET data == DatasetInit(Arr(2, [i \in 1..Len(labels) |-> <<i>>]),
                               SeqArg(labels), NoneArg).val[1]
       IN  \E r \in MulticlassClassifierTrain(mc[1], bclf, data) :
               /\ bclf' = r.bclf
               /\ last' = Call("multiTrain", "mc", "mc", labels, r.err, "off")
    /\ UNCHANGED <<dsvars, cmpvars, mv, out, bin, mc>>

\* bin.train(data), data a new Dataset with the labels given
TrainBinary(labels) ==
    /\ bin # None
    /\ LET data == DatasetInit(Arr(2, [i \in 1..Len(labels) |-> <<i>>]),
                               SeqArg(labels), NoneArg).val[1]
       IN  last' = Call("binaryTrain", "bin", "bin", labels,
                        BinaryClassifierTrain(bin[1], data), "off")
    /\ UNCHANGED <<dsvars, clfvars>>

\* bin.clf.enableState("values"): the state is switched on on the wrapped
\* classifier
EnableWrappedValues ==
    /\ bin # None
    /\ bin' = Some([bin[1] EXCEPT !.clf = EnableState(@, "values", TRUE)])
    /\ out' = None
    /\ last' = Call("binaryEnable", "bin", "bin", "values", NoErr, "off")
    /\ UNCHANGED <<dsvars, cmpvars, mv, mc, bclf>>

\* bin.predict(data), the wrapped classifier deciding raw for the samples
PredictBinary(raw) ==
    /\ bin # None
    /\ \E r \in {BinaryClassifierPredict(bin[1], raw)} :
          /\ bin' = Some(r.self)
          /\ out' = r.ret
          /\ last' = Call("binaryPredict", "bin", "bin", raw, r.err, "off")
    /\ UNCHANGED <<dsvars, cmpvars, mv, mc, bclf>>

NextBuild ==
    \/ \E i, j \in DOMAIN LabelLists : NewBinary(LabelLists[i], LabelLists[j])
    \/ \E t \in BclfTypes : NewMulticlass(t)
    \/ \E n \in 1..MaxSamples : \E labels \in [1..n -> 1..MaxLabel] :
          TrainMulti(labels) \/ TrainBinary(labels)

SpecBuild == Init /\ [][NextBuild]_vars

\* a BinaryClassifier at work
NextBinary ==
    \/ \E i, j \in DOMAIN LabelLists : NewBinary(LabelLists[i], LabelLists[j])
    \/ EnableWrappedValues
    \/ \E n \in 1..MaxSamples : \E raw \in [1..n -> -1..1] :
          PredictBinary(raw)

SpecBinary == Init /\ [][NextBinary]_vars

\* ------------------------------------------------------------ the ensembles
\* what a splitter yields: Datasets, each named by the ids of its samples
Splits == << <<1>>, <<1, 2>> >>

\* the classifiers a SplitClassifier is built around
Prototypes ==
    << LeafClassifier, EnableState(LeafClassifier, "values", TRUE),
       BaseClassifier >>

\* SplitClassifier(clf)
NewSplit(clf) ==
    /\ sc' = SplitClassifierInit(clf)
    /\ last' = Call("splitInit", "sc", "sc", clf, NoErr, "off")
    /\ UNCHANGED <<dsvars, mv, out, bin, mc, bclf, cc, px, fsc, nodes>>

\* sc.train(data), the splitter yielding splits for data
SplitTrain(splits) ==
    \E r \in {SplitClassifierTrain(sc, cc, splits)} :
        /\ cc' = r.bclf
        /\ last' = Call("splitTrain", "sc", "sc", splits, r.err, "off")
        /\ UNCHANGED <<dsvars, mv, out, bin, mc, bclf, sc, px, fsc, nodes>>

\* cc.enableState("values")
EnableCombined ==
    /\ cc' = EnableState(cc, "values", TRUE)
    /\ out' = None
    /\ last' = Call("combinedEnable", "cc", "cc", "values", NoErr, "off")
    /\ UNCHANGED <<dsvars, mv, bin, mc, bclf, sc, px, fsc, nodes>>

\* cc.predict(data)
PredictCombined(samples) ==
    \E r \in {CombinedClassifierPredict(cc, samples)} :
        /\ cc' = r.self
        /\ out' = r.ret
        /\ last' = Call("combinedPredict", "cc", "cc", samples, r.err,
                        "off")
        /\ UNCHANGED <<dsvars, mv, bin, mc, bclf, sc, px, fsc, nodes>>

NextEnsemble ==
    \/ \E i \in DOMAIN Prototypes : NewSplit(Prototypes[i])
    \/ \E n \in 0..MaxClfs : \E ix \in [1..n -> DOMAIN Splits] :
          SplitTrain([k \in 1..n |-> Splits[ix[k]]])
    \/ EnableCombined
    \/ \E i \in DOMAIN Splits : PredictCombined(Splits[i])

SpecEnsemble == Init /\ [][NextEnsemble]_vars

\* --------------------------------------------------------------- the proxies
\* what a feature selection decides on a Dataset of two features: it fails
\* (None), or selects these features
Selections == <<None, Some(<<1>>), Some(<<2>>), Some(<<1, 2>>)>>
TwoFeatures == [nfeatures |-> 2]

\* FeatureSelectionClassifier(clf, feature_selection) with a new feature
\* selection
NewFeatureSelection(clf) ==
    /\ fsc' = FeatureSelectionClassifierInit(clf, FeatureSelectionInit)
    /\ last' = Call("selectInit", "fsc", "fsc", clf, NoErr, "off")
    /\ UNCHANGED <<dsvars, mv, out, bin, mc, bclf, cc, sc, px, nodes>>

\* fsc.feature_selection.enableState("selected_ids") and disableState
SwitchSelectedIds(enabled) ==
    /\ fsc' = [fsc EXCEPT !.feature_selection =
                             EnableState(@, "selected_ids", enabled)]
    /\ last' = Call("selectSwitch", "fsc", "fsc", enabled, NoErr, "off")
    /\ UNCHANGED <<dsvars, mv, out, bin, mc, bclf, cc, sc, px, nodes>>

\* fsc.train(data)
TrainSelected(sel) ==
    /\ Len(fsc.clf.trained) < MaxTrainings
    /\ \E r \in {FeatureSelectionClassifierTrain(fsc, TwoFeatures, sel)} :
          /\ fsc' = r.self
          /\ last' = Call("selectTrain", "fsc", "fsc", sel, r.err, "off")
    /\ UNCHANGED <<dsvars, mv, out, bin, mc, bclf, cc, sc, px, nodes>>

\* px.train(data)
TrainProxy(data) ==
    /\ Len(px.clf.trained) < MaxTrainings
    /\ \E r \in {ProxyClassifierTrain(px, data)} :
          /\ px' = r.self
          /\ out' = None
          /\ last' = Call("proxyTrain", "px", "px", data, r.err, "off")
    /\ UNCHANGED <<dsvars, mv, bin, mc, bclf, cc, sc, fsc, nodes>>

\* px.predict(data), the wrapped classifier deciding raw for the samples
PredictProxy(raw) ==
    \E r \in {ProxyClassifierPredict(px, raw)} :
        /\ px' = r.self
        /\ out' = r.ret
        /\ last' = Call("proxyPredict", "px", "px", raw, r.err, "off")
        /\ UNCHANGED <<dsvars, mv, bin, mc, bclf, cc, sc, fsc, nodes>>

NextProxy ==
    \/ \E i \in {1, 3} : NewFeatureSelection(Prototypes[i])
    \/ \E enabled \in BOOLEAN : SwitchSelectedIds(enabled)
    \/ \E i \in DOMAIN Selections : TrainSelected(Selections[i])
    \/ \E i \in DOMAIN Splits : TrainProxy(Splits[i])
    \/ \E n \in 1..MaxSamples : \E raw \in [1..n -> {-1, 1}] :
          PredictProxy(raw)

SpecProxy == Init /\ [][NextProxy]_vars

\* ------------------------------------------------- a plain BoostedClassifier
\* the children a BoostedClassifier is given: concrete classifiers trained on
\* the first split, with values disabled and enabled, and a base Classifier
Children ==
    << LeafTrain(LeafClassifier, Splits[1]),
       LeafTrain(EnableState(LeafClassifier, "values", TRUE), Splits[1]),
       BaseClassifier >>

\* BoostedClassifier(clfs)
NewBoosted(clfs) ==
    /\ bclf' = BoostedClassifierInit(clfs)
    /\ out' = None
    /\ last' = Call("boostedInit", "bclf", "bclf", clfs, NoErr, "off")
    /\ UNCHANGED <<dsvars, cmpvars, mv, bin, mc>>

\* bclf.enableState(name)
EnableBoosted(name) ==
    /\ bclf' = EnableState(bclf, name, TRUE)
    /\ out' = None
    /\ last' = Call("boostedEnable", "bclf", "bclf", name, NoErr, "off")
    /\ UNCHANGED <<dsvars, cmpvars, mv, bin, mc>>

\* bclf.predict(data)
PredictBoosted(samples) ==
    \E r \in {BoostedClassifierPredict(bclf, samples)} :
        /\ bclf' = r.self
        /\ out' = r.ret
        /\ last' = Call("boostedPredict", "bclf", "bclf", samples, r.err,
                        "off")
        /\ UNCHANGED <<dsvars, cmpvars, mv, bin, mc>>

NextBoosted ==
    \/ \E n \in 0..MaxClfs : \E ix \in [1..n -> DOMAIN Children] :
          NewBoosted([k \in 1..n |-> Children[ix[k]]])
    \/ \E name \in {"values", "raw_predictions"} : EnableBoosted(name)
    \/ \E i \in DOMAIN Splits : PredictBoosted(Splits[i])

SpecBoosted == Init /\ [][NextBoosted]_vars

\* ------------------------------------------------------------ the F-scores
\* OneWayAnova()(dataset), the dataset having one feature
Anova(values, labels) ==
    /\ out' = Some(OneWayAnova(values, labels))
    /\ last' = Call("anova", "d", "d", [values |-> values, labels |-> labels],
                    NoErr, "off")
    /\ UNCHANGED <<dsvars, cmpvars, mv, bin, mc, bclf>>

NextAnova ==
    \E n \in 1..MaxRows :
        \E values \in [1..n -> 1..2], labels \in [1..n -> 1..2] :
            Anova(values, labels)

SpecAnova == Init /\ [][NextAnova]_vars

\* ------------------------------------------------ two SplitClassifiers
\* the ensemble a caller passes for bclf: a CombinedClassifier of its own
OwnBclf == CombinedClassifierInit(<<>>, MaximalVoteInit)

\* nodes[i] = SplitClassifier(clf), or SplitClassifier(clf, bclf=<a new one>)
NewNode(i, clf, own) ==
    /\ nodes' = [nodes EXCEPT ![i] =
                    Some(SplitClassifierInitWith(
                             clf, IF own THEN Some(OwnBclf) ELSE None))]
    /\ last' = Call("nodeInit", "nodes", "nodes",
                    [node |-> i, own |-> own], NoErr, "off")
    /\ UNCHANGED <<dsvars, mv, out, bin, mc, bclf, cc, sc, px, fsc>>

\* the ensemble b written back to where nodes[i] holds it
StoreBclf(i, b) ==
    IF nodes[i][1].bclf = None
    THEN cc' = b /\ nodes' = nodes
    ELSE cc' = cc /\ nodes' = [nodes EXCEPT ![i][1].bclf = Some(b)]

\* nodes[i].train(data)
NodeTrain(i, splits) ==
    /\ nodes[i] # None
    /\ \E r \in {SplitClassifierTrain(nodes[i][1], Bclf(nodes[i][1], cc),
                                      splits)} :
          /\ StoreBclf(i, r.bclf)
          /\ last' = Call("nodeTrain", "nodes", "nodes",
                          [node |-> i, splits |-> splits], r.err, "off")
    /\ UNCHANGED <<dsvars, mv, out, bin, mc, bclf, sc, px, fsc>>

\* nodes[i].predict(data)
NodePredict(i, samples) ==
    /\ nodes[i] # None
    /\ \E r \in {CombinedClassifierPredict(Bclf(nodes[i][1], cc), samples)} :
          /\ StoreBclf(i, r.self)
          /\ out' = r.ret
          /\ last' = Call("nodePredict", "nodes", "nodes",
                          [node |-> i, samples |-> samples], r.err, "off")
    /\ UNCHANGED <<dsvars, mv, bin, mc, bclf, sc, px, fsc>>

NextDefaults ==
    \/ \E i \in 1..2, own \in BOOLEAN : NewNode(i, Prototypes[1], own)
    \/ \E i \in 1..2 : \E n \in 0..2 : NodeTrain(i, [k \in 1..n |-> Splits[k]])
    \/ \E i \in 1..2 : NodePredict(i, Splits[2])

SpecDefaults == Init /\ [][NextDefaults]_vars

\* ------------------------------------------------------------------ claims
WellShaped(d) ==
    /\ d.samples.nd = 2
    /\ Len(d.labels) = NRows(d.samples)
    /\ Len(d.chunks) = NRows(d.samples)

\* a constructor argument that is a sequence of the wrong length
WrongLength(arg, samples) ==
    arg.kind = "seq" /\ Len(arg.v) # NRows(SamplesToArray(samples))

\* C1: every Dataset that exists has as many labels and chunks as rows of
\* samples and 2-d samples, and a constructor call with a labels or chunks
\* sequence of another length fails and returns no Dataset.
C1_ShapeInvariant ==
    /\ WellShaped(ds)
    /\ res # None => WellShaped(res[1])
    /\ (/\ last.op = "init"
        /\ \/ WrongLength(last.arg[2], last.arg[1])
           \/ WrongLength(last.arg[3], last.arg[1]))
       => (last.err # NoErr /\ res = None)

\* C2: a disable that follows an enable (nothing having extended the Dataset
\* in between) succeeds and gives the labels the sequence they had before the
\* enable; no permute call changes samples or chunks.
C2_PermuteRoundTrip ==
    [][/\ last'.op \in {"permuteOn", "permuteOff"}
          => (ds'.samples = ds.samples /\ ds'.chunks = ds.chunks)
       /\ (last'.op = "permuteOff" /\ gh.phase = "on")
          => (last'.err = NoErr /\ ds'.labels = gh.saved[1])]_vars

C2_Witness ==
    /\ last.op = "permuteOff"
    /\ last.phase = "on"
    /\ last.err = NoErr
    /\ last.arg.moved
    /\ last.arg.mode
    /\ ds.labels = last.arg.saved[1]

\* C3: a disable while no permutation is active (the Dataset is new, or the
\* last permute call that succeeded was a disable) raises and changes nothing.
C3_DisableInactiveFails ==
    [][(last'.op = "permuteOff" /\ gh.phase = "off")
       => (last'.err = "RuntimeError" /\ ds' = ds)]_vars

C3_Witness ==
    /\ last.op = "permuteOff"
    /\ last.phase = "off"
    /\ last.err = "RuntimeError"
    /\ Cardinality(Range(ds.labels)) = 2
    /\ ds.uniqueLabels = None

\* C4: a + b of two Datasets with as many features returns a new Dataset
\* holding a's samples, labels and chunks followed by b's, and changes
\* neither operand.
C4_ConcatJoins ==
    [][(last'.op = "add"
        /\ NCols(Obj(last'.a).samples) = NCols(Obj(last'.b).samples))
       => (/\ last'.err = NoErr
           /\ res' # None
           /\ res'[1].samples.v =
                 Obj(last'.a).samples.v \o Obj(last'.b).samples.v
           /\ res'[1].labels = Obj(last'.a).labels \o Obj(last'.b).labels
           /\ res'[1].chunks = Obj(last'.a).chunks \o Obj(last'.b).chunks
           /\ ds' = ds)]_vars

\* C5: a + b and d += b with Datasets of different feature counts raise
\* ValueError, return no Dataset and leave the receiver as it was.
C5_FeatureMismatchFails ==
    [][(last'.op \in {"add", "iadd"}
        /\ NCols(Obj(last'.a).samples) # NCols(Obj(last'.b).samples))
       => (last'.err = "ValueError" /\ res' = None /\ ds' = ds)]_vars

C5_Witness ==
    /\ last.op = "iadd"
    /\ last.b = "res"
    /\ last.err = "ValueError"

\* C6: getRandomSamples with a sequence that has not one entry per unique
\* label raises and returns no Dataset; with an integer k it returns exactly
\* k samples of every unique label.
C6_RandomSamplesChecksLength ==
    last.op = "getRandomSamples" =>
        /\ (last.arg.kind = "seq"
            /\ Len(last.arg.v) # Cardinality(Range(ds.labels)))
           => (last.err # NoErr /\ res = None)
        /\ (last.arg.kind = "int" /\ last.err = NoErr)
           => (/\ res # None
               /\ \A l \in Range(ds.labels) :
                     Cardinality(Where(res[1].labels, l)) = last.arg.v)

\* the label sets of a BinaryClassifier are disjoint and free of duplicates
DisjointLabels(b) ==
    /\ Range(b.poslabels) \cap Range(b.neglabels) = {}
    /\ Cardinality(Range(b.poslabels)) = Len(b.poslabels)
    /\ Cardinality(Range(b.neglabels)) = Len(b.neglabels)

\* C7: BinaryClassifier(clf, poslabels, neglabels) with a label in both lists
\* raises the overlap error (ValueError) and makes no object; every
\* BinaryClassifier that exists has disjoint label sets without duplicates.
C7_OverlapRefused ==
    /\ (/\ last.op = "binaryInit"
        /\ Range(last.arg[1]) \cap Range(last.arg[2]) # {})
       => (last.err = "ValueError" /\ bin = None)
    /\ bin # None => DisjointLabels(bin[1])
    /\ \A k \in 1..Len(bclf.clfs) : DisjointLabels(bclf.clfs[k])

\* the number of classifiers of clfs that vote for label l on sample i
VotesFor(clfs, i, l) ==
    Cardinality({k \in 1..Len(clfs) :
        l \in Range(PredictionLabels(GetState(clfs[k], "predictions")[i]))})

\* the classifiers all have predictions enabled, for as many samples each
Votable(clfs) ==
    /\ Len(clfs) > 0
    /\ \A k \in 1..Len(clfs) :
          /\ IsStateEnabled(clfs[k], "predictions")
          /\ Len(GetState(clfs[k], "predictions"))
                = Len(GetState(clfs[1], "predictions"))

\* C8: on a non-empty list of classifiers with predictions enabled and as
\* many predictions each, MaximalVote returns one label per sample, and no
\* label has more votes on a sample than the label returned for it.
C8_MaximalVoteWins ==
    (last.op = "vote" /\ Votable(last.arg))
    => /\ last.err = NoErr
       /\ out # None
       /\ Len(out[1]) = Len(GetState(last.arg[1], "predictions"))
       /\ \A i \in 1..Len(out[1]) : \A l \in 1..MaxLabel :
             VotesFor(last.arg, i, out[1][i]) >= VotesFor(last.arg, i, l)

C10_OneVsOnePairs ==
    last.op = "multiTrain" =>
        LET ulabels == Unique(last.arg)
            n == Len(ulabels)
            clfs == bclf.clfs
        IN  /\ 2 * Len(clfs) = n * (n - 1)
            /\ \A i, j \in 1..n : i < j =>
                  Cardinality({k \in 1..Len(clfs) :
                      {Range(clfs[k].poslabels), Range(clfs[k].neglabels)}
                          = {{ulabels[i]}, {ulabels[j]}}}) = 1
            /\ \A k, m \in 1..Len(clfs) :
                  /\ clfs[k].clf.id # LeafClassifier.id
                  /\ k # m => clfs[k].clf.id # clfs[m].clf.id

\* C11: after SplitClassifier.train over k splits the ensemble has k children,
\* the i-th a deep copy of the prototype (an object of its own) trained once
\* more than the prototype, on the i-th split; the prototype is not trained.
C11_SplitChildren ==
    [][(last'.op = "splitTrain" /\ last'.err = NoErr)
       => (/\ Len(cc'.clfs) = Len(last'.arg)
           /\ \A i \in 1..Len(cc'.clfs) :
                 /\ cc'.clfs[i] = [Deepcopy(sc.clf, cc'.clfs[i].id) EXCEPT
                                      !.trained =
                                          Append(sc.clf.trained, last'.arg[i])]
                 /\ cc'.clfs[i].id # sc.clf.id
                 /\ \A j \in 1..Len(cc'.clfs) :
                       i # j => cc'.clfs[i].id # cc'.clfs[j].id
           /\ sc' = sc)]_vars

C11_Witness ==
    /\ last.op = "splitTrain"
    /\ last.err = NoErr
    /\ Len(cc.clfs) = MaxClfs
    /\ cc.clfs[1].trained # cc.clfs[2].trained
    /\ IsStateEnabled(cc.clfs[1], "values")

\* C12: when FeatureSelectionClassifier.train returns, the state selected_ids
\* of the feature selection is enabled if and only if it was before the call.
C12_SelectedIdsFlagRestored ==
    [][(last'.op = "selectTrain" /\ last'.err = NoErr)
       => (IsStateEnabled(fsc'.feature_selection, "selected_ids")
              = IsStateEnabled(fsc.feature_selection, "selected_ids"))]_vars

C12_Witness ==
    /\ last.op = "selectTrain"
    /\ last.err = NoErr
    /\ ~IsStateEnabled(fsc.feature_selection, "selected_ids")
    /\ fsc.feature_selection.states.selected_ids.value = last.arg
    /\ fsc.maskclf # None
    /\ fsc.maskclf[1].mapper = <<0, 1>>
\* C13: a classifier with the state predictions enabled holds, right after
\* predict has returned p, the value p in that state (here for a
\* BoostedClassifier, whose predict the ensembles delegate to).
C13_PredictionsStateHoldsResult ==
    (/\ last.op = "boostedPredict"
     /\ last.err = NoErr
     /\ IsStateEnabled(bclf, "predictions"))
    => bclf.states.predictions.value = out

\* C19: BoostedClassifier.predict on concrete children returns their
\* predictions in child order, one per child (none for no child), and reads
\* the children's values (filling the raw-values state) only when values is
\* enabled on the ensemble and on every child.
C19_BoostedPredictGathers ==
    (/\ last.op = "boostedPredict"
     /\ \A k \in 1..Len(bclf.clfs) : bclf.clfs[k].kind # "Classifier")
    => /\ last.err = NoErr
       /\ out # None
       /\ Len(out[1]) = Len(bclf.clfs)
       /\ \A k \in 1..Len(bclf.clfs) :
             out[1][k] = Decide(bclf.clfs[k], last.arg)
\* C14: OneWayAnova gives F = 0 (a finite number, neither nan nor inf) for a
\* feature without variation within the groups: all samples of a label have
\* the same value, whether the groups differ from one another or not.
C14_ZeroWithinGivesZero ==
    (/\ last.op = "anova"
     /\ \A i, j \in 1..Len(last.arg.values) :
           last.arg.labels[i] = last.arg.labels[j]
              => last.arg.values[i] = last.arg.values[j])
    => (out[1].n = 0 /\ out[1].d > 0)
\* C15: BinaryClassifier.train trains the wrapped classifier once, on the
\* samples whose label is in the positive or the negative set, in ascending
\* order of their ids, labelled +1 and -1.
C15_BinaryTrainRemaps ==
    last.op = "binaryTrain" =>
        LET ids == SortedSeq({i \in 1..Len(last.arg) :
                       last.arg[i] \in Range(bin[1].poslabels)
                                          \cup Range(bin[1].neglabels)})
        IN  /\ last.err = NoErr
            /\ bin[1].clf.trained =
                  << [ids |-> ids,
                      labels |-> [k \in 1..Len(ids) |->
                          IF last.arg[ids[k]] \in Range(bin[1].poslabels)
                          THEN 1 ELSE -1]] >>
\* C16: BinaryClassifier.predict on outputs +1/-1 of the wrapped classifier
\* returns one entry per sample, the positive label (or the list of them, if
\* several) for +1 and the negative one likewise for -1; its state values
\* is given the raw outputs and its state predictions the mapped labels
\* (kept by the state where it is enabled).
C16_BinaryPredictMaps ==
    (/\ last.op = "binaryPredict"
     /\ \A i \in 1..Len(last.arg) : last.arg[i] = -1 \/ last.arg[i] = 1)
    => /\ last.err = NoErr
       /\ out # None
       /\ Len(out[1]) = Len(last.arg)
       /\ \A i \in 1..Len(last.arg) :
             LET labels == IF last.arg[i] = 1 THEN bin[1].poslabels
                           ELSE bin[1].neglabels
             IN  out[1][i] = IF Len(labels) = 1 THEN Single(labels[1])
                             ELSE Several(labels)
       /\ IsStateEnabled(bin[1], "values")
             => bin[1].states.values.value = Some(last.arg)
       /\ IsStateEnabled(bin[1], "predictions")
             => bin[1].states.predictions.value = out

C16_Witness ==
    /\ last.op = "binaryPredict"
    /\ last.err = NoErr
    /\ \E i, j \in 1..Len(last.arg) : last.arg[i] = 1 /\ last.arg[j] = -1
    /\ Len(bin[1].poslabels) = 2
    /\ Len(bin[1].neglabels) = 1
    /\ bin[1].states.values.value = Some(last.arg)
    /\ bin[1].states.predictions.value = out
\* the labels with the most votes on sample i
TopLabels(clfs, i) ==
    {l \in 1..MaxLabel :
        /\ VotesFor(clfs, i, l) > 0
        /\ \A m \in 1..MaxLabel : VotesFor(clfs, i, l) >= VotesFor(clfs, i, m)}

\* C17: when two or more labels have the most votes on some sample,
\* MaximalVote raises nothing and returns a label for every sample: on a tied
\* sample the first of the tied labels in the order of iteration (ascending,
\* for these labels), so that the result is a function of the predictions.
C17_TieResolved ==
    (/\ last.op = "vote"
     /\ Votable(last.arg)
     /\ \E i \in 1..Len(GetState(last.arg[1], "predictions")) :
           Cardinality(TopLabels(last.arg, i)) > 1)
    => /\ last.err = NoErr
       /\ out # None
       /\ Len(out[1]) = Len(GetState(last.arg[1], "predictions"))
       /\ \A i \in 1..Len(out[1]) :
             out[1][i] = SortedSeq(TopLabels(last.arg, i))[1]
\* C18: ProxyClassifier.train trains the wrapped classifier once, on the data
\* it was given, and ProxyClassifier.predict returns what the wrapped
\* classifier's predict returns; after either the proxy's states are those
\* of the wrapped classifier.
C18_ProxyForwards ==
    [][/\ last'.op = "proxyTrain"
          => (/\ last'.err = NoErr
              /\ px'.clf.trained = Append(px.clf.trained, last'.arg)
              /\ px'.states = px'.clf.states)
       /\ last'.op = "proxyPredict"
          => (/\ last'.err = NoErr
              /\ out' = Some(last'.arg)
              /\ px'.states = px'.clf.states)]_vars
\* C20: CombinedClassifier.predict over concrete children whose votes are not
\* tied returns what the combiner makes of them and holds it in its state
\* predictions; with its state values enabled and none on the combiner (the
\* default MaximalVote) it does so all the same, and values stays unset.
C20_CombinedPredictCompletes ==
    (/\ last.op = "combinedPredict"
     /\ Len(cc.clfs) > 0
     /\ \A k \in 1..Len(cc.clfs) :
           /\ cc.clfs[k].kind # "Classifier"
           /\ ~IsStateEnabled(cc.clfs[k], "values")
           /\ cc.clfs[k].states.predictions.value # None
     /\ \A i \in 1..Len(last.arg) :
           Cardinality(TopLabels(cc.clfs, i)) = 1)
    => /\ last.err = NoErr
       /\ out # None
       /\ Len(out[1]) = Len(last.arg)
       /\ \A i \in 1..Len(last.arg) : out[1][i] \in TopLabels(cc.clfs, i)
       /\ cc.states.predictions.value = out
       /\ cc.states.values.value = None

\* a cache is empty, or holds the sorted distinct values of its sequence
CacheFresh(d) ==
    /\ d.uniqueLabels = None \/ d.uniqueLabels = Some(Unique(d.labels))
    /\ d.uniqueChunks = None \/ d.uniqueChunks = Some(Unique(d.chunks))
CachesEmpty(d) == d.uniqueLabels = None /\ d.uniqueChunks = None

\* C23: in every reachable state the unique-label cache of a Dataset is empty
\* or equal to the sorted distinct labels, and the unique-chunk cache likewise
\* for the chunks (also after a call that raised); a constructor call, an
\* extension and an enable or disable of the permutation that return leave
\* the cache of every sequence they assigned empty.
C23_UniqueCachesFresh ==
    /\ [](CacheFresh(ds) /\ (res # None => CacheFresh(res[1])))
    /\ [][/\ res' # None => CachesEmpty(res'[1])
          /\ (last'.op \in {"iadd", "rebind"} /\ last'.err = NoErr)
             => CachesEmpty(ds')
          /\ (last'.op \in {"permuteOn", "permuteOff"} /\ last'.err = NoErr)
             => ds'.uniqueLabels = None]_vars

C23_Witness ==
    /\ last.op = "permuteOff"
    /\ last.err = NoErr
    /\ last.arg.moved
    /\ Cardinality(Range(ds.labels)) = 2
    /\ ds.uniqueLabels = None
    /\ ds.uniqueChunks = Some(Unique(ds.chunks))

\* C24: a disable that follows two enables in a row succeeds and gives the
\* labels the sequence they had before the first of the two enables.
C24_RepeatedEnableKeepsOriginal ==
    [][(/\ last.op = "permuteOn" /\ last.phase = "on" /\ last.err = NoErr
        /\ last'.op = "permuteOff")
       => (last'.err = NoErr /\ ds'.labels = last.arg.saved[1])]_vars

\* the SplitClassifier side of the replacement: a train over k splits that
\* returns leaves the ensemble with k children, each trained on its split and
\* on nothing else than the prototype was, however many it had before
SplitTrainReplaces ==
    [][(last'.op = "splitTrain" /\ last'.err = NoErr)
       => (/\ Len(cc'.clfs) = Len(last'.arg)
           /\ \A i \in 1..Len(cc'.clfs) :
                 cc'.clfs[i].trained = Append(sc.clf.trained, last'.arg[i]))]_vars

\* C21: after every train call of a MulticlassClassifier on data with n unique
\* labels the ensemble has n(n-1)/2 children, each of them for two labels of
\* that data: the children are those of the most recent train call.
C21_TrainReplacesChildren ==
    [][last'.op = "multiTrain"
       => LET ulabels == Unique(last'.arg)
              n == Len(ulabels)
              clfs == bclf'.clfs
          IN  /\ 2 * Len(clfs) = n * (n - 1)
              /\ \A k \in 1..Len(clfs) :
                    Range(clfs[k].poslabels) \cup Range(clfs[k].neglabels)
                        \subseteq Range(ulabels)]_vars

\* C22: of two SplitClassifiers constructed without bclf, a train or predict
\* call on one leaves the ensemble seen through the other (its children,
\* their predictions, its states) as it was.
C22_DefaultNodesIndependent ==
    [][\A i, j \in 1..2 :
          (/\ last'.op \in {"nodeTrain", "nodePredict"}
           /\ last'.arg.node = i
           /\ j # i
           /\ nodes[j] # None
           /\ nodes[i][1].bclf = None
           /\ nodes[j][1].bclf = None)
          => Bclf(nodes'[j][1], cc') = Bclf(nodes[j][1], cc)]_vars

\* the same for two SplitClassifiers either of which was given an ensemble
\* of its own: they do not interfere
OwnNodesIndependent ==
    [][\A i, j \in 1..2 :
          (/\ last'.op \in {"nodeTrain", "nodePredict"}
           /\ last'.arg.node = i
           /\ j # i
           /\ nodes[j] # None
           /\ (nodes[i][1].bclf # None \/ nodes[j][1].bclf # None))
          => Bclf(nodes'[j][1], cc') = Bclf(nodes[j][1], cc)]_vars

\* C25: a train call in which the feature selection raises leaves the state
\* selected_ids with the enabled flag it had before the call and nothing held
\* from the temporary enablement, so that the next train call whose selection
\* and wrapped train succeed returns.
C25_FailedSelectionReleases ==
    [][/\ (last'.op = "selectTrain" /\ last'.arg = None)
          => (/\ IsStateEnabled(fsc'.feature_selection, "selected_ids")
                    = IsStateEnabled(fsc.feature_selection, "selected_ids")
              /\ fsc'.feature_selection.temp = None)
       /\ (/\ last.op = "selectTrain" /\ last.arg = None
           /\ last'.op = "selectTrain" /\ last'.arg # None
           /\ fsc.clf.kind # "Classifier")
          => last'.err = NoErr]_vars
====
